---- MODULE Spec2Model ----
(***************************************************************************)
(* Model of src/app.py: the asynchronous request/response handshake of     *)
(* the title generator.  A POST handler (home) polls the shared            *)
(* result_queue, applies the 5 second throttle and starts a background     *)
(* thread (generate_titles_async), which guards the remote call            *)
(* (call_qianfan_api, wrapped by with_timeout) with the global flag        *)
(* request_in_progress.                                                    *)
(*                                                                         *)
(* Handler h of Handlers is a server thread that runs home() for one POST  *)
(* after another; thread t of Tasks is a background thread slot, free      *)
(* again once its generate_titles_async has returned.  The threads share   *)
(* the globals without any lock, so every read or write of a global is a   *)
(* step of its own.                                                        *)
(*                                                                         *)
(* Time.  The program only ever looks at time.time() - last_request_time   *)
(* < 5 (line 160), so the clock is kept relative: time.time() is pinned    *)
(* at now, and time passing moves every recorded time stamp into the      *)
(* past, down to 0, which stands for every instant a full window or more   *)
(* ago (the initial last_request_time = 0 included).                       *)
(***************************************************************************)
EXTENDS Integers, Sequences, FiniteSets, TLC

\* ---- bounds ----
\* POSTs with a topic that arrive in one run
MaxPosts == 3
\* background threads that are started in one run
MaxStarts == 2
\* seconds that pass in one step of the clock
Quantum == 4

\* characters of a response text in the runs that check the parsing
MaxLen == 4

\* ---- program constants ----
ThrottleWindow == 5

\* one handler thread for every POST that can be under way at once, one
\* slot for every background thread
Handlers == 1..MaxPosts
Tasks == 1..MaxStarts
Topics == {"A", "B"}
\* the program treats all topics alike: the first one posted is called A
FirstTopic == "A"
None == "None"
\* request.form.get('product'): a topic, the empty string, or None (missing)
FormValues == Topics \cup {"", None}

\* time.time(), see the note on time above
now == ThrottleWindow
Stamps == 0..now
Older(stamp) == IF stamp > Quantum THEN stamp - Quantum ELSE 0

\* an optional list: Absent models Python's None, Present(l) a list l
Absent == <<>>
Present(l) == <<l>>

ErrBusy == "busy"
ErrTimeout == "timeout"
ErrFailed == "failed"

\* ---- the response text and its parsing (lines 122-126) ----
NL == "\n"
SP == " "
IsSpace(c) == c \in {SP, NL}

RECURSIVE Split(_)
\* str.split("\n"): always at least one piece, pieces may be empty
Split(s) ==
  IF \A i \in 1..Len(s) : s[i] # NL
    THEN <<s>>
    ELSE LET k == CHOOSE i \in 1..Len(s) :
                     s[i] = NL /\ \A j \in 1..(i-1) : s[j] # NL
         IN  <<SubSeq(s, 1, k-1)>> \o Split(SubSeq(s, k+1, Len(s)))

RECURSIVE LStrip(_)
LStrip(s) == IF s # <<>> /\ IsSpace(Head(s)) THEN LStrip(Tail(s)) ELSE s

RECURSIVE RStrip(_)
RStrip(s) ==
  IF s # <<>> /\ IsSpace(s[Len(s)]) THEN RStrip(SubSeq(s, 1, Len(s)-1)) ELSE s

\* str.strip()
Strip(s) == RStrip(LStrip(s))

RECURSIVE StripNonEmpty(_)
\* [title.strip() for title in pieces if title.strip()]
StripNonEmpty(pieces) ==
  IF pieces = <<>> THEN <<>>
  ELSE LET t == Strip(Head(pieces))
       IN  (IF t # <<>> THEN <<t>> ELSE <<>>) \o StripNonEmpty(Tail(pieces))

\* a thread that publishes the pieces as they are split
SplitOnly(body) == Split(body)

\* line 124
ParseTitles(body) == StripNonEmpty(Split(body))

\* the response bodies the remote API answers with in this model
Bodies == { <<"a", NL, SP, NL, SP, "b">> }

\* every response text of at most MaxLen characters
Chars == {"a", "b", SP, NL}
Texts == UNION {[1..n -> Chars] : n \in 0..MaxLen}

\* what call_qianfan_api can do (lines 37-62, 74-99)
CallOutcomes == {"ok", "malformed", "net_timeout", "net_error", "deadline"}

VARIABLES
  request_in_progress,  \* line 25
  last_request_time,    \* line 26
  result_queue,         \* line 24, oldest first
  hpc,                  \* position of each handler thread in home()
  product,              \* home(): product
  resp,                 \* the response the last step rendered, if any
  tpc,                  \* position of each background thread
  tproduct,             \* generate_titles_async(): product
  late,                 \* slots whose with_timeout daemon thread outlived join
  calls,                \* remote calls started by the thread in this slot
  puts,                 \* results put by the thread in this slot
  last_accept,          \* <<slot, time>> of the latest thread start
  posts,                \* POSTs with a topic received so far
  text                  \* resp["result"] of a well-formed response (line 124)

vars == <<request_in_progress, last_request_time, result_queue, hpc,
          product, resp, tpc, tproduct, late, calls, puts, last_accept,
          posts, text>>

tvars == <<tpc, tproduct, late, calls, puts>>
gvars == <<request_in_progress, last_request_time>>

Result(p, t, e) == [product |-> p, titles |-> t, error |-> e]
NoResult == Result(None, Absent, None)
NoResponse == [outcome |-> "none", result |-> NoResult]

Response(o, res) == [outcome |-> o, result |-> res]

\* a program whose last_request_time starts at the time of the process start
InitStampedNow ==
  /\ request_in_progress = FALSE
  /\ last_request_time = now
  /\ result_queue = <<>>
  /\ hpc = [h \in Handlers |-> "idle"]
  /\ product = [h \in Handlers |-> None]
  /\ resp = NoResponse
  /\ tpc = [t \in Tasks |-> "none"]
  /\ tproduct = [t \in Tasks |-> None]
  /\ late = {}
  /\ calls = [t \in Tasks |-> 0]
  /\ puts = [t \in Tasks |-> 0]
  /\ last_accept = <<0, 0>>
  /\ posts = 0
  /\ text \in Bodies

Init ==
  /\ request_in_progress = FALSE
  /\ last_request_time = 0
  /\ result_queue = <<>>
  /\ hpc = [h \in Handlers |-> "idle"]
  /\ product = [h \in Handlers |-> None]
  /\ resp = NoResponse
  /\ tpc = [t \in Tasks |-> "none"]
  /\ tproduct = [t \in Tasks |-> None]
  /\ late = {}
  /\ calls = [t \in Tasks |-> 0]
  /\ puts = [t \in Tasks |-> 0]
  /\ last_accept = <<0, 0>>
  /\ posts = 0
  /\ text \in Bodies

\* time passes
Tick ==
  /\ last_request_time' = Older(last_request_time)
  /\ last_accept' = IF Older(last_accept[2]) > 0
                      THEN <<last_accept[1], Older(last_accept[2])>>
                      ELSE <<0, 0>>
  /\ resp' = NoResponse
  /\ UNCHANGED <<text, request_in_progress, result_queue, hpc, product, tvars, posts>>

\* ---- home(), the POST handler (lines 143-174) ----

\* a handler that only rejects a missing form field
InvalidOnlyMissing(p) == p = None

\* line 148: not product
Invalid(p) == p \in {"", None}

\* lines 146-152: read the form value, reject an empty or missing one,
\* otherwise look whether the queue is empty (the first access to shared
\* state).  The server's threads are interchangeable: a request takes the
\* first idle one.
Post(h, p) ==
  /\ hpc[h] = "idle"
  /\ \A g \in Handlers : hpc[g] = "idle" => h <= g
  /\ IF Invalid(p)
       THEN /\ resp' = Response("invalid", NoResult)
            /\ UNCHANGED <<hpc, product, posts>>
       ELSE /\ posts < MaxPosts
            /\ posts = 0 => p = FirstTopic
            /\ posts' = posts + 1
            /\ hpc' = [hpc EXCEPT ![h] =
                         IF result_queue # <<>> THEN "get" ELSE "throttle"]
            /\ product' = [product EXCEPT ![h] = p]
            /\ resp' = NoResponse
  /\ UNCHANGED <<text, gvars, result_queue, tvars, last_accept>>

\* a poll that takes whatever result is queued
MatchesAny(result, p) == TRUE

\* line 154
Matches(result, p) == result.product = p

\* lines 155-157: what the handler renders for a matching result
Render(result) == IF result.error # None THEN "error" ELSE "titles"

\* a queue whose get() returns the oldest item without removing it
RestPeeked(q) == q

\* line 153: Queue.get() removes the item it returns
Rest(q) == Tail(q)

\* a handler that puts a result of another topic back at the end of the queue
GetRequeue(h) ==
  /\ hpc[h] = "get"
  /\ result_queue # <<>>
  /\ LET result == Head(result_queue) IN
       IF Matches(result, product[h])
         THEN /\ result_queue' = Rest(result_queue)
              /\ resp' = Response(Render(result), result)
              /\ hpc' = [hpc EXCEPT ![h] = "idle"]
              /\ product' = [product EXCEPT ![h] = None]
         ELSE /\ result_queue' = Append(Rest(result_queue), result)
              /\ hpc' = [hpc EXCEPT ![h] = "throttle"]
              /\ resp' = NoResponse
              /\ UNCHANGED product
  /\ UNCHANGED <<text, gvars, tvars, last_accept, posts>>

\* lines 153-157: result_queue.get() waits until the queue has an item
Get(h) ==
  /\ hpc[h] = "get"
  /\ result_queue # <<>>
  /\ LET result == Head(result_queue) IN
       /\ result_queue' = Rest(result_queue)
       /\ IF Matches(result, product[h])
            THEN /\ resp' = Response(Render(result), result)
                 /\ hpc' = [hpc EXCEPT ![h] = "idle"]
                 /\ product' = [product EXCEPT ![h] = None]
            ELSE /\ hpc' = [hpc EXCEPT ![h] = "throttle"]
                 /\ resp' = NoResponse
                 /\ UNCHANGED product
  /\ UNCHANGED <<text, gvars, tvars, last_accept, posts>>

\* a handler without the throttle check
NeverTooFrequent(t, last) == FALSE

\* line 160
TooFrequent(t, last) == t - last < ThrottleWindow

\* a slot no background thread has been started in
Free(t) == tpc[t] = "none"

\* lines 160-174: the throttle check, then the thread start
Throttle(h) ==
  /\ hpc[h] = "throttle"
  /\ hpc' = [hpc EXCEPT ![h] = "idle"]
  /\ product' = [product EXCEPT ![h] = None]
  /\ IF TooFrequent(now, last_request_time)
       THEN /\ resp' = Response("throttled", NoResult)
            /\ UNCHANGED <<tpc, tproduct, last_accept>>
       ELSE /\ \E t \in Tasks :
                 /\ Free(t)
                 /\ \A u \in Tasks : Free(u) => t <= u
                 /\ tpc' = [tpc EXCEPT ![t] = "check"]
                 /\ tproduct' = [tproduct EXCEPT ![t] = product[h]]
                 /\ last_accept' = <<t, now>>
            /\ resp' = Response("generating", NoResult)
  /\ UNCHANGED <<text, gvars, result_queue, late, calls, puts, posts>>

\* ---- generate_titles_async(product), the background thread (101-140) ----

\* a thread that does not look at the flag
AlwaysProceed(flag) == "set_flag"

\* line 105: if request_in_progress
AfterCheck(flag) == IF flag THEN "busy" ELSE "set_flag"

\* line 105: read the flag
Check(t) ==
  /\ tpc[t] = "check"
  /\ tpc' = [tpc EXCEPT ![t] = AfterCheck(request_in_progress)]
  /\ resp' = NoResponse
  /\ UNCHANGED <<text, gvars, result_queue, hpc, product, tproduct, late, calls, puts,
                 last_accept, posts>>

\* the thread has returned
Release(t) ==
  /\ tpc' = [tpc EXCEPT ![t] = "done"]
  /\ tproduct' = [tproduct EXCEPT ![t] = None]

\* lines 106-110
BusyResult(p) == Result(p, Absent, ErrBusy)

\* the busy branch placed inside the try block: finally clears the flag
BusyPutInTry(t) ==
  /\ tpc[t] = "busy"
  /\ result_queue' = Append(result_queue, BusyResult(tproduct[t]))
  /\ puts' = [puts EXCEPT ![t] = @ + 1]
  /\ Release(t)
  /\ resp' = NoResponse
  /\ request_in_progress' = FALSE
  /\ UNCHANGED <<text, last_request_time, hpc, product, late, calls, last_accept,
                 posts>>

\* the busy branch without its return (line 111): the thread goes on to
\* the remote call
BusyPutNoReturn(t) ==
  /\ tpc[t] = "busy"
  /\ result_queue' = Append(result_queue, BusyResult(tproduct[t]))
  /\ puts' = [puts EXCEPT ![t] = @ + 1]
  /\ tpc' = [tpc EXCEPT ![t] = "set_flag"]
  /\ resp' = NoResponse
  /\ UNCHANGED <<text, gvars, hpc, product, tproduct, late, calls, last_accept,
                 posts>>

\* lines 106-111: publish the busy result and return
BusyPut(t) ==
  /\ tpc[t] = "busy"
  /\ result_queue' = Append(result_queue, BusyResult(tproduct[t]))
  /\ puts' = [puts EXCEPT ![t] = @ + 1]
  /\ Release(t)
  /\ resp' = NoResponse
  /\ UNCHANGED <<text, gvars, hpc, product, late, calls, last_accept, posts>>

\* line 113
SetFlag(t) ==
  /\ tpc[t] = "set_flag"
  /\ request_in_progress' = TRUE
  /\ tpc' = [tpc EXCEPT ![t] = "set_time"]
  /\ resp' = NoResponse
  /\ UNCHANGED <<text, last_request_time, result_queue, hpc, product, tproduct, late,
                 calls, puts, last_accept, posts>>

\* lines 114-117 and 51-54: record the time, then enter call_qianfan_api,
\* whose wrapper starts the daemon thread and joins it
SetTime(t) ==
  /\ tpc[t] = "set_time"
  /\ last_request_time' = now
  /\ tpc' = [tpc EXCEPT ![t] = "call"]
  /\ calls' = [calls EXCEPT ![t] = @ + 1]
  /\ resp' = NoResponse
  /\ UNCHANGED <<text, request_in_progress, result_queue, hpc, product, tproduct, late,
                 puts, last_accept, posts>>

\* a thread that takes the wrapper's TimeoutError for an ordinary failure
CallResultDeadlineFailed(p, o, body) ==
  CASE o = "ok" -> Result(p, Present(ParseTitles(body)), None)
    [] o = "net_timeout" -> Result(p, Absent, ErrTimeout)
    [] OTHER -> Result(p, Absent, ErrFailed)

\* a thread that reports a failed call with an empty list of titles
CallResultEmptyTitles(p, o, body) ==
  CASE o = "ok" -> Result(p, Present(ParseTitles(body)), None)
    [] o \in {"net_timeout", "deadline"} -> Result(p, Absent, ErrTimeout)
    [] OTHER -> Result(p, Present(<<>>), ErrFailed)

\* lines 122-138: the result published for each way the call can end
CallResult(p, o, body) ==
  CASE o = "ok" -> Result(p, Present(ParseTitles(body)), None)
    [] o \in {"net_timeout", "deadline"} -> Result(p, Absent, ErrTimeout)
    [] OTHER -> Result(p, Absent, ErrFailed)

\* lines 54-57: after join(timeout) the daemon thread is still alive
StillAlive(o) == o = "deadline"

\* lines 117-138: the call ends and its one result is published
CallReturn(t, o, body) ==
  /\ tpc[t] = "call"
  /\ result_queue' = Append(result_queue, CallResult(tproduct[t], o, body))
  /\ puts' = [puts EXCEPT ![t] = @ + 1]
  /\ late' = IF StillAlive(o) THEN late \cup {t} ELSE late
  /\ tpc' = [tpc EXCEPT ![t] = "finally"]
  /\ resp' = NoResponse
  /\ UNCHANGED <<text, gvars, hpc, product, tproduct, calls, last_accept, posts>>

\* a thread without the finally block: the flag is never cleared
NoFinally(t) ==
  /\ tpc[t] = "finally"
  /\ IF t \in late
       THEN /\ tpc' = [tpc EXCEPT ![t] = "abandoned"]
            /\ UNCHANGED tproduct
       ELSE Release(t)
  /\ resp' = NoResponse
  /\ UNCHANGED <<text, gvars, result_queue, hpc, product, late, calls, puts,
                 last_accept, posts>>

\* lines 139-140; the slot stays taken while its daemon thread runs
Finally(t) ==
  /\ tpc[t] = "finally"
  /\ request_in_progress' = FALSE
  /\ IF t \in late
       THEN /\ tpc' = [tpc EXCEPT ![t] = "abandoned"]
            /\ UNCHANGED tproduct
       ELSE Release(t)
  /\ resp' = NoResponse
  /\ UNCHANGED <<text, last_request_time, result_queue, hpc, product, late, calls, puts,
                 last_accept, posts>>

\* a wrapper whose daemon thread publishes the response it got too late
LatePublished(p, body) == <<CallResult(p, "ok", body)>>

\* lines 45-49, 56-57: what the abandoned daemon thread leaves in the queue
\* when it ends: result[0] and exception[0] belong to a wrapper call that
\* has already raised, nobody reads them
LateResults(p, body) == <<>>

\* lines 45-49: the abandoned daemon thread ends
LateFinish(t, body) ==
  /\ t \in late
  /\ late' = late \ {t}
  /\ result_queue' = result_queue \o LateResults(tproduct[t], body)
  /\ puts' = [puts EXCEPT ![t] = @ + Len(LateResults(tproduct[t], body))]
  /\ IF tpc[t] = "abandoned" THEN Release(t) ELSE UNCHANGED <<tpc, tproduct>>
  /\ resp' = NoResponse
  /\ UNCHANGED <<text, gvars, hpc, product, calls, last_accept, posts>>

HandlerStep(h) ==
  \/ \E p \in FormValues : Post(h, p)
  \/ Get(h)
  \/ Throttle(h)

TaskStep(t) ==
  \/ Check(t)
  \/ BusyPut(t)
  \/ SetFlag(t)
  \/ SetTime(t)
  \/ \E o \in CallOutcomes : CallReturn(t, o, text)
  \/ Finally(t)
  \/ LateFinish(t, text)

Next ==
  \/ Tick
  \/ \E h \in Handlers : HandlerStep(h)
  \/ \E t \in Tasks : TaskStep(t)

Spec == Init /\ [][Next]_vars

\* the submissions of a fair run: one POST fewer than MaxPosts, which keeps
\* the behaviour graph of the liveness check small
LivePosts == MaxPosts - 1

FairNext ==
  \/ Tick
  \/ \E h \in Handlers, p \in FormValues :
       Post(h, p) /\ posts' <= LivePosts
  \/ \E h \in Handlers : Get(h) \/ Throttle(h)
  \/ \E t \in Tasks : TaskStep(t)

\* some started thread is always scheduled, and the remote call always ends:
\* the network timeouts (line 91) and join(timeout) (line 54) bound it.  The
\* steps of a thread are finitely many, so this fairness runs every started
\* thread to its end.
FairSpec ==
  Init /\ [][FairNext]_vars /\ WF_vars(\E t \in Tasks : TaskStep(t))

\* ---- the runs that check the parsing of the response ----

\* the program at its start, the remote API answering with any text
ParseInit ==
  /\ request_in_progress = FALSE
  /\ last_request_time = 0
  /\ result_queue = <<>>
  /\ hpc = [h \in Handlers |-> "idle"]
  /\ product = [h \in Handlers |-> None]
  /\ resp = NoResponse
  /\ tpc = [t \in Tasks |-> "none"]
  /\ tproduct = [t \in Tasks |-> None]
  /\ late = {}
  /\ calls = [t \in Tasks |-> 0]
  /\ puts = [t \in Tasks |-> 0]
  /\ last_accept = <<0, 0>>
  /\ posts = 0
  /\ text \in Texts

\* POSTs for the one topic, every remote call answered in time with a
\* well-formed response
ParseNext ==
  \/ \E h \in Handlers :
       Post(h, FirstTopic) /\ posts' <= LivePosts
  \/ \E h \in Handlers : Get(h) \/ Throttle(h)
  \/ \E t \in Tasks :
       \/ Check(t)
       \/ BusyPut(t)
       \/ SetFlag(t)
       \/ SetTime(t)
       \/ CallReturn(t, "ok", text)
       \/ Finally(t)

ParseSpec == ParseInit /\ [][ParseNext]_vars

\* ---- the claims ----

\* the handler h leaves the throttle check in this step (lines 160-174)
Submits(h) == hpc[h] = "throttle" /\ hpc'[h] = "idle"

\* the thread in slot t passed line 105 with the flag down
Accepted(t) == tpc[t] \in {"set_flag", "set_time"} \/ calls[t] > 0

\* the thread in slot t is inside call_qianfan_api
InCall(t) == tpc[t] = "call"

\* C1: at most one background thread is executing the remote call at any
\* time.
C1_SingleFlight == Cardinality({t \in Tasks : InCall(t)}) <= 1

C3_SecondThrottled ==
  [][ \A h \in Handlers :
        /\ Submits(h)
        /\ last_accept[1] # 0
        /\ Accepted(last_accept[1])
        /\ now - last_accept[2] < ThrottleWindow
        => resp'.outcome = "throttled" /\ tpc' = tpc
    ]_vars

\* C4: the busy rejection leaves the submission state as it is: the thread
\* that finds request_in_progress True at line 105 writes neither the flag
\* (it stays True over that step) nor last_request_time, in that step or in
\* the busy branch, and starts no remote call.
C4_BusyFrame ==
  [][ \A t \in Tasks :
        /\ tpc[t] = "check" /\ tpc'[t] # "check" /\ request_in_progress
           => /\ request_in_progress'
              /\ last_request_time' = last_request_time
              /\ calls' = calls
        /\ tpc[t] = "busy" /\ tpc'[t] # "busy"
           => /\ request_in_progress' = request_in_progress
              /\ last_request_time' = last_request_time
              /\ calls' = calls
              /\ ~Accepted(t)'
    ]_vars

\* a thread was rejected as busy and has returned while the accepted one is
\* still inside the remote call
C4_Witness ==
  \E t, u \in Tasks :
    /\ tpc[t] = "done" /\ calls[t] = 0 /\ puts[t] = 1
    /\ InCall(u) /\ request_in_progress

\* the thread in slot t is between line 113 and the end of its finally block
Running(t) == tpc[t] \in {"set_time", "call", "finally"}

\* no background thread has been started and not yet returned
NoneActive == \A t \in Tasks : tpc[t] \in {"none", "done", "abandoned"}

\* C5: an accepted submission's thread always finishes, whatever the call's
\* outcome, and its last step leaves request_in_progress False; the flag is
\* never True without a thread that is still to clear it; and a submit made
\* outside the throttle window while no thread is active is answered
\* "generating", its thread finding the flag down.
C5_BackToIdle ==
  /\ \A t \in Tasks :
       (tpc[t] \in {"set_flag", "set_time", "call", "finally"})
         ~> (tpc[t] \in {"done", "abandoned"})
  /\ [](request_in_progress => \E t \in Tasks : Running(t))
  /\ [][ /\ \A t \in Tasks :
             tpc[t] = "finally" /\ tpc'[t] # "finally"
             => ~request_in_progress'
        /\ \A h \in Handlers :
             Submits(h) /\ NoneActive /\ ~TooFrequent(now, last_request_time)
             => /\ resp'.outcome = "generating"
                /\ ~request_in_progress'
                /\ \E t \in Tasks : tpc[t] = "none" /\ tpc'[t] = "check"
        /\ \A t \in Tasks :
             tpc[t] = "check" /\ tpc'[t] # "check"
               /\ (\A u \in Tasks \ {t} : ~Running(u))
             => tpc'[t] = "set_flag"
      ]_vars

\* a first submission has run to its end and a second one has been accepted
C5_Witness ==
  \E t, u \in Tasks :
    /\ tpc[t] = "done" /\ calls[t] = 1
    /\ tpc[u] = "call"
    /\ \A v \in Tasks \ {u} : ~Running(v)

\* C6: a thread that was accepted has put no result before its call ends
\* and exactly one from then on, also after the daemon thread of a call
\* that hit the deadline has ended; the steps that end the call and run the
\* finally block leave last_request_time alone.
C6_ExactlyOneResult ==
  /\ [](\A t \in Tasks :
         /\ tpc[t] \in {"set_flag", "set_time", "call"} => puts[t] = 0
         /\ tpc[t] \in {"finally", "abandoned"} => puts[t] = 1
         /\ tpc[t] = "done" /\ calls[t] = 1 => puts[t] = 1)
  /\ [][ /\ \A t \in Tasks :
             tpc[t] \in {"call", "finally", "abandoned"} /\ tpc'[t] # tpc[t]
             => last_request_time' = last_request_time
        /\ Len(result_queue') > Len(result_queue)
             => /\ Len(result_queue') = Len(result_queue) + 1
                /\ \E t \in Tasks : tpc[t] \in {"busy", "call"} /\ tpc'[t] # tpc[t]
      ]_vars

\* a call hit the deadline, its thread has published the one timeout result
\* and returned, and the daemon thread is still running
C6_Witness ==
  \E t \in Tasks :
    /\ tpc[t] = "abandoned" /\ t \in late /\ puts[t] = 1
    /\ \E i \in DOMAIN result_queue :
         result_queue[i] = Result(tproduct[t], Absent, ErrTimeout)

\* C7: the result channel holds at most one unconsumed result.
C7_SingleSlot == Len(result_queue) <= 1

\* C8: a handler is never waiting in result_queue.get() on an empty queue.
C8_NeverBlocks ==
  \A h \in Handlers : hpc[h] = "get" => result_queue # <<>>

\* the handler h renders a queued result in this step
Returns(h) ==
  /\ hpc[h] # "idle" /\ hpc'[h] = "idle"
  /\ resp'.outcome \in {"error", "titles"}

\* C9: a poll renders a result only if it took it from the head of the queue
\* and its product equals the requested topic; a poll that finds the queue
\* empty, or takes a result of another topic, renders no result.
C9_PollMatches ==
  [][ \A h \in Handlers :
        /\ Returns(h)
           => /\ hpc[h] = "get"
              /\ result_queue # <<>>
              /\ resp'.result = Head(result_queue)
              /\ resp'.result.product = product[h]
        /\ hpc[h] = "idle" /\ hpc'[h] # "idle" /\ result_queue = <<>>
           => hpc'[h] = "throttle" /\ resp' = NoResponse
        /\ hpc[h] = "get" /\ hpc'[h] # "get"
             /\ Head(result_queue).product # product[h]
           => hpc'[h] = "throttle" /\ resp' = NoResponse
        /\ hpc[h] = "throttle" /\ hpc'[h] # "throttle"
           => resp'.result = NoResult
    ]_vars

\* a poll has just rendered the titles queued for its topic
C9_Witness ==
  /\ resp.outcome = "titles"
  /\ resp.result.product \in Topics
  /\ resp.result.titles # Absent

TimeoutResult(p) == Result(p, Absent, ErrTimeout)

\* C11: a call that outlives the 25 second join publishes the timeout
\* result for its topic, and so does a call cut short by the network
\* timeout; the thread's finally block then leaves request_in_progress
\* False; and a poll for that topic that takes the timeout result from the
\* queue renders it as an error.
C11_TimeoutResult ==
  /\ [](\A p \in Topics :
         /\ CallResult(p, "deadline", text) = TimeoutResult(p)
         /\ CallResult(p, "net_timeout", text) = TimeoutResult(p))
  /\ [][ /\ \A t \in Tasks :
             tpc[t] = "call" /\ t \in late' /\ t \notin late
             => /\ result_queue' =
                     Append(result_queue, TimeoutResult(tproduct[t]))
                /\ tpc'[t] = "finally"
        /\ \A t \in Tasks :
             tpc[t] = "finally" /\ t \in late /\ tpc'[t] # "finally"
             => ~request_in_progress' /\ result_queue' = result_queue
        /\ \A h \in Handlers :
             /\ hpc[h] = "get" /\ hpc'[h] # "get"
             /\ Head(result_queue) = TimeoutResult(product[h])
             => resp' = Response("error", TimeoutResult(product[h]))
      ]_vars

\* a call hit the 25 second deadline, its thread has returned with the flag
\* down, and a poll for the topic has just rendered the timeout error
C11_Witness ==
  \E t \in Tasks :
    /\ tpc[t] = "abandoned"
    /\ \A u \in Tasks \ {t} : puts[u] = 0
    /\ ~request_in_progress
    /\ resp = Response("error", TimeoutResult(tproduct[t]))

\* the result of a successful call for topic p
Success(p) == Result(p, Present(ParseTitles(text)), None)

\* C12: the first submission after the process start is answered
\* "generating" and starts a thread, which finds the flag down; while no
\* other request has arrived, a successful call leaves exactly the result
\* with the parsed lines in the queue; and the next POST, when it is a poll
\* for the same topic and no second thread was started, renders those
\* titles.
C12_HappyPath ==
  [][ /\ \A h \in Handlers :
           Submits(h) /\ posts = 1
           => /\ resp'.outcome = "generating"
              /\ tpc'[1] = "check" /\ tproduct'[1] = product[h]
      /\ \A t \in Tasks :
           posts = 1 /\ tpc[t] = "check" /\ tpc'[t] # "check"
           => tpc'[t] = "set_flag"
      /\ \A t \in Tasks :
           /\ posts = 1 /\ tpc[t] = "call" /\ tpc'[t] = "finally"
           /\ result_queue'[Len(result_queue')].error = None
           => result_queue' = <<Success(FirstTopic)>>
      /\ \A h \in Handlers :
           /\ posts = 2 /\ Free(2)
           /\ hpc[h] = "get" /\ hpc'[h] # "get"
           /\ product[h] = FirstTopic
           /\ Head(result_queue).error = None
           => resp' = Response("titles", Success(FirstTopic))
    ]_vars

\* the second POST of the run, a poll for the topic of the first, has just
\* rendered the two titles of the response
C12_Witness ==
  /\ posts = 2 /\ Free(2)
  /\ \A h \in Handlers : hpc[h] = "idle"
  /\ resp = Response("titles",
                     Result(FirstTopic, Present(<< <<"a">>, <<"b">> >>), None))

\* C13: when a handler has answered "generating", request_in_progress is
\* True and last_request_time is the time of that submission.
C13_AcceptedSideEffects ==
  resp.outcome = "generating"
    => request_in_progress /\ last_request_time = now

\* C14: a submit that reaches line 160 less than 5 seconds after
\* last_request_time is answered "throttled"; that step, like every step
\* answered "throttled", writes neither request_in_progress nor
\* last_request_time, starts no background thread and leaves the queue
\* alone, whether or not a submission is in flight.
C14_ThrottleFrame ==
  [][ \A h \in Handlers :
        /\ Submits(h) /\ now - last_request_time < ThrottleWindow
           => resp' = Response("throttled", NoResult)
        /\ Submits(h) /\ resp'.outcome = "throttled"
           => /\ now - last_request_time < ThrottleWindow
              /\ UNCHANGED <<request_in_progress, last_request_time,
                             result_queue, tpc, tproduct, late, calls, puts>>
    ]_vars

\* a submit has just been throttled while an accepted one is inside the
\* remote call
C14_Witness ==
  /\ resp = Response("throttled", NoResult)
  /\ request_in_progress
  /\ \E t \in Tasks : InCall(t)
  /\ now - last_request_time < ThrottleWindow

\* C15: an empty or missing topic never gets past line 148: no handler
\* and no background thread ever works on one; and the step that answers
\* the validation error changes nothing: no thread is started, the globals
\* and the queue stay as they are, and the POST does not count as a
\* submission.
C15_ValidationError ==
  /\ [](/\ \A h \in Handlers : product[h] \in Topics \cup {None}
        /\ \A h \in Handlers : hpc[h] # "idle" => product[h] \in Topics
        /\ \A t \in Tasks : tproduct[t] \in Topics \cup {None}
        /\ \A i \in DOMAIN result_queue : result_queue[i].product \in Topics)
  /\ [][ resp'.outcome = "invalid"
          => /\ resp' = Response("invalid", NoResult)
             /\ UNCHANGED <<request_in_progress, last_request_time,
                            result_queue, hpc, product, tpc, tproduct, late,
                            calls, puts, posts>>
      ]_vars

\* a POST without a topic has just been answered with the validation error
\* while a result is waiting in the queue and a submission is in flight
C15_Witness ==
  /\ resp = Response("invalid", NoResult)
  /\ result_queue # <<>>
  /\ request_in_progress
  /\ \E t \in Tasks : InCall(t)

\* C16: a result is handed to at most one poll: the step in which a
\* handler renders a result takes that result off the head of the queue,
\* a handler only ever makes the queue shorter by its oldest item, no two
\* handlers move in one step, and only background threads add to the queue.
C16_ConsumedOnce ==
  [][ /\ \A h \in Handlers :
           Returns(h)
           => /\ resp'.result = Head(result_queue)
              /\ result_queue' = Tail(result_queue)
      /\ \A h \in Handlers :
           hpc'[h] # hpc[h]
           => /\ IF hpc[h] = "get"
                   THEN /\ result_queue # <<>>
                        /\ result_queue' = Tail(result_queue)
                   ELSE result_queue' = result_queue
              /\ \A g \in Handlers \ {h} : hpc'[g] = hpc[g]
      /\ resp'.outcome \in {"error", "titles"}
           => \E h \in Handlers : Returns(h)
    ]_vars

\* of two concurrent polls that both saw the one queued result, one has
\* just rendered it and the other is left waiting at the empty queue
C16_Witness ==
  /\ resp.outcome \in {"error", "titles"}
  /\ result_queue = <<>>
  /\ \E h \in Handlers : hpc[h] = "get" /\ product[h] = resp.result.product

\* C18: every result in the queue, and every result a handler renders, has
\* either a list of titles and no error, or one of the three error texts
\* and no titles.
C18_TitlesXorError ==
  /\ \A i \in DOMAIN result_queue :
       LET r == result_queue[i] IN
         IF r.error = None
           THEN r.titles # Absent
           ELSE r.titles = Absent /\ r.error \in {ErrBusy, ErrTimeout, ErrFailed}
  /\ resp.outcome = "titles"
       => resp.result.titles # Absent /\ resp.result.error = None
  /\ resp.outcome = "error"
       => resp.result.titles = Absent /\ resp.result.error # None

\* a success result and the result of a failed call are queued together
C18_Witness ==
  /\ \E i \in DOMAIN result_queue :
       result_queue[i].error = None /\ result_queue[i].titles # Absent
  /\ \E i \in DOMAIN result_queue :
       result_queue[i].error = ErrFailed /\ result_queue[i].titles = Absent

\* C19: a handler that takes from the queue a result of another topic
\* removes it and renders nothing, keeps its own topic and goes on to the
\* throttle check, touching neither the globals nor any thread; from the
\* throttle check it never returns to the queue; and when it is not
\* throttled the thread it starts works on the handler's own topic.
C19_MismatchDropped ==
  [][ \A h \in Handlers :
        /\ ( /\ hpc[h] = "get" /\ hpc'[h] # "get"
             /\ Head(result_queue).product # product[h] )
           => /\ result_queue' = Tail(result_queue)
              /\ hpc'[h] = "throttle"
              /\ product'[h] = product[h]
              /\ resp' = NoResponse
              /\ UNCHANGED <<request_in_progress, last_request_time, tpc,
                             tproduct, late, calls, puts>>
        /\ hpc[h] = "throttle" => hpc'[h] \in {"throttle", "idle"}
        /\ Submits(h) /\ resp'.outcome = "generating"
           => \E t \in Tasks :
                /\ Free(t) /\ tpc'[t] = "check"
                /\ tproduct'[t] = product[h]
    ]_vars

\* the second POST of the run, for topic B, has taken the result of the
\* first submission (topic A) out of the queue and is at the throttle check
C19_Witness ==
  /\ posts = 2 /\ Free(2)
  /\ puts[1] = 1
  /\ result_queue = <<>>
  /\ resp = NoResponse
  /\ \E h \in Handlers : hpc[h] = "throttle" /\ product[h] = "B"

\* C20: while a background thread is between line 113 and its finally
\* block, request_in_progress is True.
C20_FlagWhileRunning ==
  \A t \in Tasks : Running(t) => request_in_progress

\* the positions at which a line of s begins
LineStarts(s) == {i \in 1..(Len(s) + 1) : i = 1 \/ s[i-1] = NL}

\* the line of s that begins at position i, without its newline
LineAt(s, i) ==
  LET e == CHOOSE j \in i..(Len(s) + 1) :
             /\ j = Len(s) + 1 \/ s[j] = NL
             /\ \A k \in i..(j-1) : s[k] # NL
  IN  SubSeq(s, i, e - 1)

\* a line without the blanks around it
Trimmed(l) ==
  LET ink == {k \in 1..Len(l) : l[k] # SP} IN
    IF ink = {} THEN <<>>
    ELSE SubSeq(l, CHOOSE k \in ink : \A j \in ink : k <= j,
                   CHOOSE k \in ink : \A j \in ink : j <= k)

\* the trimmed non-blank lines of s, in the order of s
ExpectedTitles(s) ==
  LET kept == {i \in LineStarts(s) : Trimmed(LineAt(s, i)) # <<>>}
      nth(n) == CHOOSE i \in kept : Cardinality({j \in kept : j <= i}) = n
  IN  [n \in 1..Cardinality(kept) |-> Trimmed(LineAt(s, nth(n)))]

\* C17: for every response text, the titles of the result a successful
\* call publishes, and the titles a poll renders, are the lines of the text
\* split at the newlines, each trimmed, the blank ones dropped, in their
\* order; a text without a non-blank line gives the empty list of titles
\* and no error.
C17_Parsing ==
  /\ \A i \in DOMAIN result_queue :
       LET r == result_queue[i] IN
         /\ r.error \in {None, ErrBusy}
         /\ r.error = None
              => /\ r.titles = Present(ExpectedTitles(text))
                 /\ (\A k \in 1..Len(text) : text[k] \in {SP, NL})
                      => r.titles = Present(<<>>)
  /\ resp.outcome = "titles"
       => resp.result = Result(FirstTopic, Present(ExpectedTitles(text)), None)

\* a response of blanks and newlines only was published and rendered as an
\* empty list of titles
C17_Witness ==
  /\ Len(text) = MaxLen
  /\ \A k \in 1..Len(text) : text[k] \in {SP, NL}
  /\ \E j, k \in 1..Len(text) : text[j] = SP /\ text[k] = NL
  /\ resp = Response("titles", Result(FirstTopic, Present(<<>>), None))

TypeOK ==
  /\ request_in_progress \in BOOLEAN
  /\ last_request_time \in Stamps
  /\ Len(result_queue) <= MaxPosts
  /\ posts \in 0..MaxPosts
====
